---------------------------- MODULE Spec2Model ----------------------------
(***************************************************************************)
(* A model of the worker-thread pool of ejgdlyz/ThreadPool.                *)
(*                                                                         *)
(*   style = "future" : src/final_version/threadpool.h (std::future pool)  *)
(*   style = "result" : src/threadpool.cpp (Task / Result / Any pool)      *)
(*                                                                         *)
(* Both pools share the constructor, the setters, start, the growth step   *)
(* of submitTask and the destructor; they differ in the handle submitTask  *)
(* returns and in the dispatch loop threadFunc.                            *)
(*                                                                         *)
(* Granularity.  Everything a thread does while it holds taskQueMtx_ is    *)
(* one step (the section ends where the lock is released: at a wait, a     *)
(* return or the end of the scope).  Code that runs without the lock       *)
(* (start, the setters, the first line of the destructor, the worker's     *)
(* idleThreadSize_++) is one step per statement that another thread can    *)
(* observe.                                                                *)
(*                                                                         *)
(* Time.  A Tick lets TickSeconds seconds pass.  dur of a worker is        *)
(* now - lastTime in seconds, saturated at THREAD_MAX_IDLE_TIME (the code  *)
(* only compares it with that constant).  A wait_for(1s) can time out once *)
(* a Tick has passed since the wait began.  A finer clock adds only states *)
(* in which a timed-out wait finds dur below the limit and waits again.    *)
(* BlockOnNotEmpty keeps dur, so the seconds add up over successive waits. *)
(*                                                                         *)
(* Undefined behaviour (a call through the null unique_ptr that            *)
(* threads_[key] inserts for a missing key; front()/pop() on an empty      *)
(* std::queue) ends the run in the state crashed = TRUE: nothing the       *)
(* program does afterwards is defined, so nothing is modelled afterwards.  *)
(***************************************************************************)
EXTENDS Integers, Sequences, FiniteSets, TLC

\* ------------------------------------------------------------- bounds
MaxTasks == 3      \* task ids; each task is submitted by its own producer thread
MaxCalls == 2      \* submitTask calls in one run of Spec
MaxInit  == 1      \* start(n) is called with n in 0..MaxInit in Spec
MaxQue   == 1      \* setTaskQueMaxThreshold is called with 1..MaxQue
MaxThr   == 0      \* setThreadSizeThreshold is called with 0..MaxThr
TickSeconds == 5   \* the clock of the model advances in steps of this many seconds
MaxVal   == 3      \* an Any stores a value in 0..MaxVal
MaxCfgCalls == 4   \* CfgSpec makes at most this many setter calls

\* -------------------------------------------------- program constants
TASK_MAX_THRESHOLD   == 1024
THREAD_MAX_THRESHOLD == 10
THREAD_MAX_IDLE_TIME == 10
DefaultRType         == 0    \* RType() for the int-returning tasks of the test

Tasks == 1..MaxTasks
Modes == {"MODE_FIXED", "MODE_CACHED"}
Styles == {"future", "result"}

\* The values the five tasks of tdpool_test.cpp return (sum1, sum2, three range sums).
TaskRet == <<3, 6, 5050, 5050, 5050>>

\* run() / the bound callable of task t: the value it returns.
Ret(t) == TaskRet[((t - 1) % 5) + 1]

\* A value held by a future or by an Any: its dynamic type and its content.
IntVal(n) == [ty |-> "int", v |-> n]
CStrVal   == [ty |-> "cstr", v |-> 0]    \* Any("") as returned by Result::get
NoVal     == [ty |-> "none", v |-> 0]    \* a default-constructed Any / no value yet

\* The types stored in and asked from an Any, and the values of each.
Types == {"ulong", "int", "cstr"}
Vals  == 0..MaxVal

\* Any(T data): base_ points to a Derived<T> that holds data.
AnyOf(T, v) == [ty |-> T, v |-> v]

\* The outcome of a cast_ call: a thrown exception or a returned value.
Thrown      == [thrown |-> TRUE, v |-> 0]
Returned(v) == [thrown |-> FALSE, v |-> v]

\* A cast that hands out the stored data whatever its type: a variant of
\* cast_ the type-check property must tell apart.
Reinterpret(any, T) == Returned(any.v)

\* Any::cast_<T>(): dynamic_cast of base_.get() to Derived<T>*; a null
\* result (another type, or a null base_) throws, else data_ is returned.
cast_(any, T) ==
    IF any.ty = T THEN Returned(any.v) ELSE Thrown

\* castRes before any cast_ call.
NoCast == [from |-> NoVal, T |-> "none", thrown |-> FALSE, v |-> 0]

VARIABLES
    style,                 \* which of the two pools this run is
    poolMode_, isPoolRunning_,
    initThreadSize_, curThreadSize_, idleThreadSize_, taskSize_,
    threadSizeThresHold_, taskQueMaxThreshold_,
    threads_,              \* registry: pairs <<key, TRUE>> (a Thread record) or <<key, FALSE>> (null unique_ptr)
    generateId_,           \* Thread::generateId_
    taskQue_,              \* FIFO of task ids
    opc,                   \* owner thread: where it is in construct/start/destroy
    startN, startI,        \* start's argument and loop index
    spc,                   \* per task: state of its submitTask call
    pticked,               \* per task: a second has passed since its wait_for began
    handle,                \* per task: the future / Result the call returned
    got,                   \* per task: what get() returned (NoVal while not called)
    ws,                    \* worker threads, in the order they were started
    exitNotified,          \* exitCond_.notify_all() reached the waiting destructor
    crashed,               \* undefined behaviour was executed
    accOrder, deqOrder,    \* history: tasks in the order accepted / dequeued
    runs,                  \* history: per task, how often its body was executed
    anyObj,                \* an Any object of the submitter
    castRes,               \* the last cast_ call on anyObj: its argument and outcome
    cfgLog                 \* history: the setter calls made so far, where they are recorded

poolVars == <<style, poolMode_, isPoolRunning_, initThreadSize_, curThreadSize_,
              idleThreadSize_, taskSize_, threadSizeThresHold_, taskQueMaxThreshold_,
              threads_, generateId_, taskQue_, opc, startN, startI, spc, pticked,
              handle, got, ws, exitNotified, crashed, accOrder, deqOrder, runs>>

anyVars == <<anyObj, castRes>>

vars == <<poolVars, anyVars, cfgLog>>

cfgVars   == <<poolMode_, threadSizeThresHold_, taskQueMaxThreshold_>>
ownerVars == <<opc, startN, startI>>
histVars  == <<accOrder, deqOrder, runs>>
callVars  == <<spc, pticked, handle, got>>

\* ------------------------------------------------------------ helpers

\* a < b where both operands were converted to an unsigned type first, as C++
\* does for atomic_int against size_t / atomic_uint: a negative int becomes a
\* value above every non-negative one of the model.
ULess(a, b) ==
    IF a < 0 THEN (b < 0 /\ a < b) ELSE (b < 0 \/ a < b)

\* Thread::start(): a detached thread that runs threadFunc(id); lastTime = now.
Worker(id) ==
    [id |-> id, pc |-> IF style = "future" THEN "lock" ELSE "top",
     dur |-> 0, task |-> 0,
     notified |-> FALSE, ticked |-> FALSE]

\* A worker thread that has returned from threadFunc.
Gone(w) ==
    [id |-> w.id, pc |-> "done", dur |-> 0, task |-> 0,
     notified |-> FALSE, ticked |-> FALSE]

\* A worker thread that has returned from threadFunc on the idle path.
Reaped(w) == [Gone(w) EXCEPT !.pc = "reaped"]

\* notEmpty_.notify_all(): every worker blocked in wait / wait_for is woken.
NotifyNotEmpty(W) ==
    [i \in DOMAIN W |->
        IF W[i].pc \in {"wait", "twait"} THEN [W[i] EXCEPT !.notified = TRUE]
        ELSE W[i]]

\* The keys of the registry.
Keys(reg) == {e[1] : e \in reg}

\* threads_.erase(key)
Erase(reg, key) == {e \in reg : e[1] # key}

\* threads_.emplace(key, record): no effect when the key is present.
Emplace(reg, key) ==
    IF key \in Keys(reg) THEN reg ELSE reg \cup {<<key, TRUE>>}

\* threads_[key]: operator[] inserts a null unique_ptr for a missing key.
Subscript(reg, key) ==
    IF key \in Keys(reg) THEN reg ELSE reg \cup {<<key, FALSE>>}

\* No step of the program is defined after undefined behaviour, and the pool
\* object is gone once the destructor has returned.
Alive == ~crashed /\ opc # "destroyed"

\* ---------------------------------------------------------------- Init
Constructed ==
    /\ style \in Styles
    /\ poolMode_ = "MODE_FIXED"
    /\ isPoolRunning_ = FALSE
    /\ initThreadSize_ = 0
    /\ curThreadSize_ = 0
    /\ idleThreadSize_ = 0
    /\ taskSize_ = 0
    /\ threadSizeThresHold_ = THREAD_MAX_THRESHOLD
    /\ taskQueMaxThreshold_ = TASK_MAX_THRESHOLD
    /\ threads_ = {}
    /\ generateId_ = 0
    /\ taskQue_ = << >>
    /\ opc = "config"
    /\ startN = 0
    /\ startI = 0
    /\ spc = [t \in Tasks |-> "new"]
    /\ pticked = [t \in Tasks |-> FALSE]
    /\ handle = [t \in Tasks |-> [st |-> "none", valid |-> FALSE, val |-> NoVal]]
    /\ got = [t \in Tasks |-> NoVal]
    /\ ws = << >>
    /\ exitNotified = FALSE
    /\ crashed = FALSE
    /\ accOrder = << >>
    /\ deqOrder = << >>
    /\ runs = [t \in Tasks |-> 0]
    /\ anyObj = NoVal
    /\ castRes = NoCast

\* The record of the setter calls: kept only in the runs that start with
\* recording on, so that the other runs are not told apart by it.
NoLog    == [on |-> FALSE, calls |-> << >>]
EmptyLog == [on |-> TRUE, calls |-> << >>]

Log(op, mode, n) ==
    IF cfgLog.on
    THEN [cfgLog EXCEPT !.calls = Append(@, [op |-> op, mode |-> mode, n |-> n])]
    ELSE cfgLog

Init == Constructed /\ cfgLog = NoLog

\* ------------------------------------------------------------- setters
\* A running test that always answers no: a variant of checkRunningState the
\* setter property must tell apart.
NeverRunning == FALSE

checkRunningState == isPoolRunning_

setMode(mode) ==
    /\ Alive /\ opc \in {"config", "running"}
    /\ poolMode_' = IF checkRunningState THEN poolMode_ ELSE mode
    /\ cfgLog' = Log("setMode", mode, 0)
    /\ UNCHANGED <<anyVars, style, isPoolRunning_, initThreadSize_, curThreadSize_,
                   idleThreadSize_, taskSize_, threadSizeThresHold_,
                   taskQueMaxThreshold_, threads_, generateId_, taskQue_,
                   ownerVars, callVars, ws, exitNotified, crashed, histVars>>

setTaskQueMaxThreshold(threshold) ==
    /\ Alive /\ opc \in {"config", "running"}
    /\ taskQueMaxThreshold_' =
          IF checkRunningState THEN taskQueMaxThreshold_ ELSE threshold
    /\ cfgLog' = Log("setTaskQueMaxThreshold", "", threshold)
    /\ UNCHANGED <<anyVars, style, isPoolRunning_, initThreadSize_, curThreadSize_,
                   idleThreadSize_, taskSize_, threadSizeThresHold_,
                   poolMode_, threads_, generateId_, taskQue_,
                   ownerVars, callVars, ws, exitNotified, crashed, histVars>>

\* A setter that stores the threshold in either mode: a variant of
\* setThreadSizeThreshold the mode-order property must tell apart.
SetThresholdAnyMode(threshold) ==
    /\ Alive /\ opc \in {"config", "running"}
    /\ threadSizeThresHold_' =
          IF checkRunningState THEN threadSizeThresHold_ ELSE threshold
    /\ cfgLog' = Log("setThreadSizeThreshold", "", threshold)
    /\ UNCHANGED <<anyVars, style, isPoolRunning_, initThreadSize_, curThreadSize_,
                   idleThreadSize_, taskSize_, taskQueMaxThreshold_,
                   poolMode_, threads_, generateId_, taskQue_,
                   ownerVars, callVars, ws, exitNotified, crashed, histVars>>

setThreadSizeThreshold(threshold) ==
    /\ Alive /\ opc \in {"config", "running"}
    /\ threadSizeThresHold_' =
          IF checkRunningState THEN threadSizeThresHold_
          ELSE IF poolMode_ = "MODE_CACHED" THEN threshold
          ELSE threadSizeThresHold_
    /\ cfgLog' = Log("setThreadSizeThreshold", "", threshold)
    /\ UNCHANGED <<anyVars, style, isPoolRunning_, initThreadSize_, curThreadSize_,
                   idleThreadSize_, taskSize_, taskQueMaxThreshold_,
                   poolMode_, threads_, generateId_, taskQue_,
                   ownerVars, callVars, ws, exitNotified, crashed, histVars>>


\* --------------------------------------------------------------- start
\* start(n), line by line; none of it holds taskQueMtx_.  It runs while no
\* submitTask call is in progress (the two would race on threads_).
NoCallInProgress == \A t \in Tasks : spc[t] # "wait"

StartFlag(n) ==
    /\ Alive /\ opc = "config" /\ NoCallInProgress
    /\ startN' = n
    /\ isPoolRunning_' = TRUE
    /\ opc' = "st_init"
    /\ UNCHANGED <<anyVars, cfgLog, style, cfgVars, initThreadSize_, curThreadSize_,
                   idleThreadSize_, taskSize_, threads_, generateId_, taskQue_,
                   startI, callVars, ws, exitNotified, crashed, histVars>>

StartInit ==
    /\ Alive /\ opc = "st_init"
    /\ initThreadSize_' = startN
    /\ opc' = "st_cur"
    /\ UNCHANGED <<anyVars, cfgLog, style, cfgVars, isPoolRunning_, curThreadSize_,
                   idleThreadSize_, taskSize_, threads_, generateId_, taskQue_,
                   startN, startI, callVars, ws, exitNotified, crashed, histVars>>

StartCur ==
    /\ Alive /\ opc = "st_cur"
    /\ curThreadSize_' = startN
    /\ opc' = "st_create"
    /\ UNCHANGED <<anyVars, cfgLog, style, cfgVars, isPoolRunning_, initThreadSize_,
                   idleThreadSize_, taskSize_, threads_, generateId_, taskQue_,
                   startN, startI, callVars, ws, exitNotified, crashed, histVars>>

\* The first loop of start: initThreadSize_ records, each under the id the
\* Thread constructor draws from generateId_.
CreateRecords(reg, first, n) ==
    reg \cup {<<k, TRUE>> : k \in (first .. (first + n - 1)) \ Keys(reg)}

StartCreate ==
    /\ Alive /\ opc = "st_create"
    /\ threads_' = CreateRecords(threads_, generateId_, initThreadSize_)
    /\ generateId_' = generateId_ + initThreadSize_
    /\ startI' = 0
    /\ opc' = IF 0 < initThreadSize_ THEN "st_spawn" ELSE "running"
    /\ UNCHANGED <<anyVars, cfgLog, style, cfgVars, isPoolRunning_, initThreadSize_,
                   curThreadSize_, idleThreadSize_, taskSize_, taskQue_,
                   startN, callVars, ws, exitNotified, crashed, histVars>>

\* threads_[key]->start(): starts the record under key; a missing key gets
\* a null entry and the call through it is undefined.
StartRecord(reg, W, key) ==
    IF <<key, TRUE>> \in reg
    THEN [reg |-> reg, ws |-> Append(W, Worker(key)), ub |-> FALSE]
    ELSE [reg |-> Subscript(reg, key), ws |-> W, ub |-> TRUE]

\* The second loop of start, first statement: threads_[i]->start().
StartSpawn ==
    /\ Alive /\ opc = "st_spawn"
    /\ LET r == StartRecord(threads_, ws, startI) IN
          /\ threads_' = r.reg
          /\ ws' = r.ws
          /\ crashed' = r.ub
          /\ opc' = IF r.ub THEN opc ELSE "st_idle"
    /\ UNCHANGED <<anyVars, cfgLog, style, cfgVars, isPoolRunning_, initThreadSize_,
                   curThreadSize_, idleThreadSize_, taskSize_, generateId_,
                   taskQue_, startN, startI, callVars, exitNotified, histVars>>

\* The second loop of start, second statement: idleThreadSize_++, then i++.
StartIdle ==
    /\ Alive /\ opc = "st_idle"
    /\ idleThreadSize_' = idleThreadSize_ + 1
    /\ startI' = startI + 1
    /\ opc' = IF startI + 1 < initThreadSize_ THEN "st_spawn" ELSE "running"
    /\ UNCHANGED <<anyVars, cfgLog, style, cfgVars, isPoolRunning_, initThreadSize_,
                   curThreadSize_, taskSize_, threads_, generateId_, taskQue_,
                   startN, callVars, ws, exitNotified, crashed, histVars>>

\* ---------------------------------------------------------- submitTask
\* The predicate of notFull_.wait_for.
NotFull(que, threshold) == Len(que) < threshold

\* The growth condition of submitTask, read right after the enqueue.
\* taskSize_ is atomic_uint, idleThreadSize_ and curThreadSize_ are atomic_int,
\* threadSizeThresHold_ is size_t: both comparisons are unsigned.
GrowCond(mode, tsize, idle, cur, threshold) ==
    /\ mode = "MODE_CACHED"
    /\ ULess(idle, tsize)
    /\ ULess(cur, threshold)

\* The handle of an accepted call: the future of the packaged task / Result(sp).
AcceptedHandle == [st |-> "pending", valid |-> TRUE, val |-> NoVal]

\* A handle that nothing will ever resolve (a variant of RejectedHandle the
\* rejection property must tell apart).
UnresolvedHandle == [st |-> "pending", valid |-> TRUE, val |-> NoVal]

\* The handle of a rejected call: the future of a packaged task that was run
\* at once and returned RType() / Result(sp, false).
RejectedHandle ==
    IF style = "future"
    THEN [st |-> "ready", valid |-> TRUE, val |-> IntVal(DefaultRType)]
    ELSE [st |-> "pending", valid |-> FALSE, val |-> NoVal]

\* submitTask from the emplace to the return, under the lock.
Enqueue(t) ==
    LET W1   == NotifyNotEmpty(ws)
        grow == GrowCond(poolMode_, taskSize_ + 1, idleThreadSize_,
                         curThreadSize_, threadSizeThresHold_)
        reg1 == Emplace(threads_, generateId_)
        r    == StartRecord(reg1, W1, curThreadSize_)
    IN  /\ taskQue_' = Append(taskQue_, t)
        /\ taskSize_' = taskSize_ + 1
        /\ accOrder' = Append(accOrder, t)
        /\ spc' = [spc EXCEPT ![t] = "accepted"]
        /\ handle' = [handle EXCEPT ![t] = AcceptedHandle]
        /\ IF grow
           THEN /\ generateId_' = generateId_ + 1
                /\ threads_' = r.reg
                /\ ws' = r.ws
                /\ crashed' = r.ub
                /\ curThreadSize_' = IF r.ub THEN curThreadSize_ ELSE curThreadSize_ + 1
                /\ idleThreadSize_' = IF r.ub THEN idleThreadSize_ ELSE idleThreadSize_ + 1
           ELSE /\ ws' = W1
                /\ UNCHANGED <<generateId_, threads_, crashed, curThreadSize_,
                               idleThreadSize_>>
        /\ UNCHANGED <<anyVars, cfgLog, style, cfgVars, isPoolRunning_, initThreadSize_,
                       ownerVars, pticked, got, exitNotified, deqOrder, runs>>

\* A rejection that has already counted the task: a variant of Reject the
\* frame property of a rejected call must tell apart.
RejectAfterCount(t) ==
    /\ spc' = [spc EXCEPT ![t] = "rejected"]
    /\ handle' = [handle EXCEPT ![t] = RejectedHandle]
    /\ taskSize_' = taskSize_ + 1
    /\ UNCHANGED <<anyVars, cfgLog, style, cfgVars, isPoolRunning_, initThreadSize_,
                   curThreadSize_, idleThreadSize_, threads_,
                   generateId_, taskQue_, ownerVars, pticked, got, ws,
                   exitNotified, crashed, histVars>>

\* submitTask when the bounded wait ended with the queue still full.
Reject(t) ==
    /\ spc' = [spc EXCEPT ![t] = "rejected"]
    /\ handle' = [handle EXCEPT ![t] = RejectedHandle]
    /\ UNCHANGED <<anyVars, cfgLog, style, cfgVars, isPoolRunning_, initThreadSize_,
                   curThreadSize_, idleThreadSize_, taskSize_, threads_,
                   generateId_, taskQue_, ownerVars, pticked, got, ws,
                   exitNotified, crashed, histVars>>

\* A producer may call submitTask before start and while the pool runs, not
\* while start or the destructor is in progress.
CanCall == Alive /\ opc \in {"config", "running"}

\* The call of task t: takes the lock and evaluates the predicate; with the
\* queue full it blocks in wait_for.  Task ids are given in call order.
SubmitEnter(t) ==
    /\ CanCall /\ spc[t] = "new"
    /\ \A u \in Tasks : u < t => spc[u] # "new"
    /\ IF NotFull(taskQue_, taskQueMaxThreshold_)
       THEN Enqueue(t)
       ELSE /\ spc' = [spc EXCEPT ![t] = "wait"]
            /\ pticked' = [pticked EXCEPT ![t] = FALSE]
            /\ UNCHANGED <<anyVars, cfgLog, style, cfgVars, isPoolRunning_, initThreadSize_,
                           curThreadSize_, idleThreadSize_, taskSize_, threads_,
                           generateId_, taskQue_, ownerVars, handle, got, ws,
                           exitNotified, crashed, histVars>>

\* wait_for is woken (notFull_.notify_all or spuriously) and finds room.
SubmitWake(t) ==
    /\ CanCall /\ spc[t] = "wait"
    /\ NotFull(taskQue_, taskQueMaxThreshold_)
    /\ Enqueue(t)

\* wait_for times out: it returns the predicate, evaluated under the lock.
SubmitTimeout(t) ==
    /\ CanCall /\ spc[t] = "wait" /\ pticked[t]
    /\ IF NotFull(taskQue_, taskQueMaxThreshold_) THEN Enqueue(t) ELSE Reject(t)


\* ------------------------------------------- threadFunc, future style
\* The worker w leaves the dispatch loop because the pool is stopping:
\* threads_.erase(threadId); exitCond_.notify_all(); return.
ExitStopping(w) ==
    /\ threads_' = Erase(threads_, ws[w].id)
    /\ ws' = [ws EXCEPT ![w] = Gone(@)]
    /\ exitNotified' = (exitNotified \/ opc = "dtor_wait")
    /\ UNCHANGED <<anyVars, cfgLog, style, cfgVars, isPoolRunning_, initThreadSize_,
                   curThreadSize_, idleThreadSize_, taskSize_, generateId_,
                   taskQue_, ownerVars, callVars, crashed, histVars>>

\* The worker w blocks on notEmpty_: wait_for(1s) in MODE_CACHED, wait otherwise.
BlockOnNotEmpty(w) ==
    /\ ws' = [ws EXCEPT ![w] =
                 [@ EXCEPT !.pc = IF poolMode_ = "MODE_CACHED" THEN "twait" ELSE "wait",
                           !.notified = FALSE, !.ticked = FALSE]]
    /\ UNCHANGED <<anyVars, cfgLog, style, cfgVars, isPoolRunning_, initThreadSize_,
                   curThreadSize_, idleThreadSize_, taskSize_, threads_,
                   generateId_, taskQue_, ownerVars, callVars, exitNotified,
                   crashed, histVars>>

\* taskQue_.back(): a variant of Front the FIFO property must tell apart.
Back(que) == que[Len(que)]

\* The task a worker takes from the queue: taskQue_.front().
Front(que) == Head(que)

\* A pop that removes nothing: a variant of Pop the single-dequeue property
\* must tell apart.
NoPop(que) == que

\* taskQue_.pop()
Pop(que) == Tail(que)

\* The worker w takes a task: idleThreadSize_--, front/pop, taskSize_--,
\* notEmpty_.notify_all() when tasks remain, notFull_.notify_all().
Dequeue(w) ==
    LET t  == Front(taskQue_)
        q1 == Pop(taskQue_)
        W1 == IF Len(q1) > 0 THEN NotifyNotEmpty(ws) ELSE ws
    IN  /\ idleThreadSize_' = idleThreadSize_ - 1
        /\ taskQue_' = q1
        /\ taskSize_' = taskSize_ - 1
        /\ deqOrder' = Append(deqOrder, t)
        /\ ws' = [W1 EXCEPT ![w] =
                     [@ EXCEPT !.pc = "exec", !.task = t,
                               !.notified = FALSE, !.ticked = FALSE]]
        /\ UNCHANGED <<anyVars, cfgLog, style, cfgVars, isPoolRunning_, initThreadSize_,
                       curThreadSize_, threads_, generateId_, ownerVars,
                       callVars, exitNotified, crashed, accOrder, runs>>

\* One pass of `while (taskQue_.size() == 0)` and what follows it, under the
\* lock, up to the point where the lock is released.
FLoop(w) ==
    IF Len(taskQue_) = 0
    THEN IF ~isPoolRunning_ THEN ExitStopping(w) ELSE BlockOnNotEmpty(w)
    ELSE Dequeue(w)

\* The idle test without its second conjunct: a variant of IdleExitCond the
\* idle-exit property must tell apart.
IdleTimeOnly(d, cur, init) == d >= THREAD_MAX_IDLE_TIME

\* The test that lets an idle worker end itself after a timed-out wait.
\* curThreadSize_ (atomic_int) against initThreadSize_ (size_t) is unsigned.
IdleExitCond(d, cur, init) ==
    d >= THREAD_MAX_IDLE_TIME /\ ULess(init, cur)

\* The worker w ends itself for idleness: erase, curThreadSize_--,
\* idleThreadSize_--, return (exitCond_ is not notified on this path).
ExitIdle(w) ==
    /\ threads_' = Erase(threads_, ws[w].id)
    /\ curThreadSize_' = curThreadSize_ - 1
    /\ idleThreadSize_' = idleThreadSize_ - 1
    /\ ws' = [ws EXCEPT ![w] = Reaped(@)]
    /\ UNCHANGED <<anyVars, cfgLog, style, cfgVars, isPoolRunning_, initThreadSize_, taskSize_,
                   generateId_, taskQue_, ownerVars, callVars, exitNotified,
                   crashed, histVars>>

IsF(w) == Alive /\ style = "future" /\ w \in DOMAIN ws

\* The worker takes the lock at the top of the for(;;) body.
FWorkerLock(w) ==
    /\ IsF(w) /\ ws[w].pc = "lock"
    /\ FLoop(w)

\* wait / wait_for returns without a timeout (notified, or spuriously): the
\* worker has the lock again and re-tests the queue.
FWorkerWake(w) ==
    /\ IsF(w) /\ ws[w].pc \in {"wait", "twait"}
    /\ \E spurious \in BOOLEAN : ws[w].notified \/ spurious
    /\ FLoop(w)

\* wait_for returns cv_status::timeout: the idle test, else the loop again.
FWorkerTimeout(w) ==
    /\ IsF(w) /\ ws[w].pc = "twait" /\ ws[w].ticked
    /\ IF IdleExitCond(ws[w].dur, curThreadSize_, initThreadSize_)
       THEN ExitIdle(w)
       ELSE FLoop(w)

\* What running the packaged task of t does to its future.
RunTask(h, t) == [h EXCEPT !.st = "ready", !.val = IntVal(Ret(t))]

\* task(): the packaged task runs outside the lock and makes the future ready.
FWorkerRun(w) ==
    /\ IsF(w) /\ ws[w].pc = "exec"
    /\ LET t == ws[w].task IN
          /\ handle' = [handle EXCEPT ![t] = RunTask(@, t)]
          /\ runs' = [runs EXCEPT ![t] = @ + 1]
    /\ ws' = [ws EXCEPT ![w] = [@ EXCEPT !.pc = "post", !.task = 0]]
    /\ UNCHANGED <<anyVars, cfgLog, style, cfgVars, isPoolRunning_, initThreadSize_,
                   curThreadSize_, idleThreadSize_, taskSize_, threads_,
                   generateId_, taskQue_, ownerVars, spc, pticked, got,
                   exitNotified, crashed, accOrder, deqOrder>>

\* idleThreadSize_++ and lastTime = now, outside the lock.
WorkerPost(w, nextpc) ==
    /\ idleThreadSize_' = idleThreadSize_ + 1
    /\ ws' = [ws EXCEPT ![w] = [@ EXCEPT !.pc = nextpc, !.dur = 0]]
    /\ UNCHANGED <<anyVars, cfgLog, style, cfgVars, isPoolRunning_, initThreadSize_,
                   curThreadSize_, taskSize_, threads_, generateId_, taskQue_,
                   ownerVars, callVars, exitNotified, crashed, histVars>>

FWorkerPost(w) ==
    /\ IsF(w) /\ ws[w].pc = "post"
    /\ WorkerPost(w, "lock")

\* ---------------------------------------------------------- ~ThreadPool
\* A destructor that leaves isPoolRunning_ as it is: a variant of DtorFlag
\* the running-flag property must tell apart.
DtorNoFlag ==
    /\ Alive /\ opc \in {"config", "running"}
    /\ \A t \in Tasks : spc[t] # "wait"
    /\ opc' = "dtor_lock"
    /\ UNCHANGED <<anyVars, cfgLog, style, cfgVars, isPoolRunning_, initThreadSize_, curThreadSize_,
                   idleThreadSize_, taskSize_, threads_, generateId_, taskQue_,
                   startN, startI, callVars, ws, exitNotified, crashed, histVars>>

\* The destructor runs when no submitTask call is in progress.
DtorFlag ==
    /\ Alive /\ opc \in {"config", "running"} /\ NoCallInProgress
    /\ isPoolRunning_' = FALSE
    /\ opc' = "dtor_lock"
    /\ UNCHANGED <<anyVars, cfgLog, style, cfgVars, initThreadSize_, curThreadSize_,
                   idleThreadSize_, taskSize_, threads_, generateId_, taskQue_,
                   startN, startI, callVars, ws, exitNotified, crashed, histVars>>

\* The predicate of exitCond_.wait.
AllExited(reg) == Cardinality(reg) = 0

\* lock; notEmpty_.notify_all(); exitCond_.wait(lock, pred) tests pred first.
DtorLock ==
    /\ Alive /\ opc = "dtor_lock"
    /\ ws' = NotifyNotEmpty(ws)
    /\ opc' = IF AllExited(threads_) THEN "destroyed" ELSE "dtor_wait"
    /\ exitNotified' = FALSE
    /\ UNCHANGED <<anyVars, cfgLog, style, cfgVars, isPoolRunning_, initThreadSize_,
                   curThreadSize_, idleThreadSize_, taskSize_, threads_,
                   generateId_, taskQue_, startN, startI, callVars, crashed,
                   histVars>>

\* exitCond_.wait is woken (notified, or spuriously) and re-tests pred.
DtorWake ==
    /\ Alive /\ opc = "dtor_wait"
    /\ \E spurious \in BOOLEAN : exitNotified \/ spurious
    /\ opc' = IF AllExited(threads_) THEN "destroyed" ELSE "dtor_wait"
    /\ exitNotified' = FALSE
    /\ UNCHANGED <<anyVars, cfgLog, style, cfgVars, isPoolRunning_, initThreadSize_,
                   curThreadSize_, idleThreadSize_, taskSize_, threads_,
                   generateId_, taskQue_, startN, startI, callVars, ws,
                   crashed, histVars>>

\* ------------------------------------------------------------------ get
\* future::get blocks until the future is ready and returns its value.
\* Result::get returns "" at once when isValid_ is false, else waits on sem_.
GetValue(h) ==
    IF style = "result" /\ ~h.valid THEN CStrVal ELSE h.val

\* A get that does not wait for the value: a variant of CanGet the
\* result hand-over property must tell apart.
NoWait(h) == h.st # "none"

CanGet(h) ==
    /\ h.st # "none"
    /\ (style = "result" /\ ~h.valid) \/ h.st = "ready"

\* The handles are read in the order of the calls, as the tests do.
Get(t) ==
    /\ ~crashed /\ spc[t] \in {"accepted", "rejected"}
    /\ got[t] = NoVal
    /\ \A u \in Tasks : u < t => got[u] # NoVal
    /\ CanGet(handle[t])
    /\ got' = [got EXCEPT ![t] = GetValue(handle[t])]
    /\ handle' = [handle EXCEPT ![t] =
                     IF style = "result" /\ ~@.valid THEN @ ELSE [@ EXCEPT !.st = "taken"]]
    /\ UNCHANGED <<anyVars, cfgLog, style, cfgVars, isPoolRunning_, initThreadSize_,
                   curThreadSize_, idleThreadSize_, taskSize_, threads_,
                   generateId_, taskQue_, ownerVars, spc, pticked, ws,
                   exitNotified, crashed, histVars>>

\* ~Result: the submitter lets the Result of an accepted call go out of
\* scope without calling get, before the task has run (the statement
\* `pool.submitTask(task);`). The task still holds the address of the Result.
\* A Result destroyed after its task has run, or one that is invalid, is
\* never touched again, so its destruction changes nothing.
Drop(t) ==
    /\ Alive /\ style = "result"
    /\ spc[t] = "accepted" /\ got[t] = NoVal
    /\ handle[t].st = "pending"
    /\ handle' = [handle EXCEPT ![t] = [@ EXCEPT !.st = "dead"]]
    /\ UNCHANGED <<anyVars, cfgLog, style, cfgVars, isPoolRunning_, initThreadSize_,
                   curThreadSize_, idleThreadSize_, taskSize_, threads_,
                   generateId_, taskQue_, ownerVars, spc, pticked, got, ws,
                   exitNotified, crashed, histVars>>

\* ----------------------------------------------------------------- time
\* Only a thread inside wait_for can tell that time has passed, so the clock
\* of the model advances only while there is one, and now - lastTime is
\* advanced for the workers inside wait_for (the time a worker loses before
\* it waits can as well pass while it waits).
Saturate(d) == IF d > THREAD_MAX_IDLE_TIME THEN THREAD_MAX_IDLE_TIME ELSE d

TickWorker(r) ==
    IF r.pc = "twait"
    THEN [r EXCEPT !.dur = Saturate(@ + TickSeconds), !.ticked = TRUE]
    ELSE r

\* TickSeconds seconds pass.
Tick ==
    /\ Alive
    /\ ws' = [i \in DOMAIN ws |-> TickWorker(ws[i])]
    /\ pticked' = [t \in Tasks |-> pticked[t] \/ spc[t] = "wait"]
    /\ ws' # ws \/ pticked' # pticked
    /\ UNCHANGED <<anyVars, cfgLog, style, cfgVars, isPoolRunning_, initThreadSize_,
                   curThreadSize_, idleThreadSize_, taskSize_, threads_,
                   generateId_, taskQue_, ownerVars, spc, handle, got,
                   exitNotified, crashed, histVars>>

\* ------------------------------------------- threadFunc, result style
IsR(w) == Alive /\ style = "result" /\ w \in DOMAIN ws

\* `while (isPoolRunning_)`: read without the lock.
RWorkerTop(w) ==
    /\ IsR(w) /\ ws[w].pc = "top"
    /\ ws' = [ws EXCEPT ![w] =
                 [@ EXCEPT !.pc = IF isPoolRunning_ THEN "lock" ELSE "exit"]]
    /\ UNCHANGED <<anyVars, cfgLog, style, cfgVars, isPoolRunning_, initThreadSize_,
                   curThreadSize_, idleThreadSize_, taskSize_, threads_,
                   generateId_, taskQue_, ownerVars, callVars, exitNotified,
                   crashed, histVars>>

\* `if (!isPoolRunning_) break;` releases the lock and leaves the outer loop.
BreakStopping(w) ==
    /\ ws' = [ws EXCEPT ![w] =
                 [@ EXCEPT !.pc = "exit", !.notified = FALSE, !.ticked = FALSE]]
    /\ UNCHANGED <<anyVars, cfgLog, style, cfgVars, isPoolRunning_, initThreadSize_,
                   curThreadSize_, idleThreadSize_, taskSize_, threads_,
                   generateId_, taskQue_, ownerVars, callVars, exitNotified,
                   crashed, histVars>>

\* idleThreadSize_--, then taskQue_.front() and pop() on an empty queue.
PopEmpty(w) ==
    /\ idleThreadSize_' = idleThreadSize_ - 1
    /\ crashed' = TRUE
    /\ UNCHANGED <<anyVars, cfgLog, style, cfgVars, isPoolRunning_, initThreadSize_,
                   curThreadSize_, taskSize_, threads_, generateId_, taskQue_,
                   ownerVars, callVars, ws, exitNotified, histVars>>

\* One pass of `while (!isPoolRunning_ && taskQue_.size() == 0)` and what
\* follows it, under the lock, up to the point where the lock is released.
RLoop(w) ==
    IF ~isPoolRunning_ /\ Len(taskQue_) = 0 THEN BlockOnNotEmpty(w)
    ELSE IF ~isPoolRunning_ THEN BreakStopping(w)
    ELSE IF Len(taskQue_) = 0 THEN PopEmpty(w)
    ELSE Dequeue(w)

RWorkerLock(w) ==
    /\ IsR(w) /\ ws[w].pc = "lock"
    /\ RLoop(w)

RWorkerWake(w) ==
    /\ IsR(w) /\ ws[w].pc \in {"wait", "twait"}
    /\ \E spurious \in BOOLEAN : ws[w].notified \/ spurious
    /\ RLoop(w)

RWorkerTimeout(w) ==
    /\ IsR(w) /\ ws[w].pc = "twait" /\ ws[w].ticked
    /\ IF IdleExitCond(ws[w].dur, curThreadSize_, initThreadSize_)
       THEN ExitIdle(w)
       ELSE RLoop(w)

\* Task::exec: result_->setAny(run()) stores the value and posts sem_.
SetAny(h, t) == [h EXCEPT !.st = "ready", !.val = [ty |-> "ulong", v |-> Ret(t)]]

\* run() is evaluated, then setAny is called through the raw pointer
\* Task::result_. When the Result it points to was destroyed the call writes
\* to and locks an object that no longer exists: the thread may fault or go
\* on, and nothing is stored that a get could read.
RWorkerRun(w) ==
    /\ IsR(w) /\ ws[w].pc = "exec"
    /\ LET t == ws[w].task IN
          /\ runs' = [runs EXCEPT ![t] = @ + 1]
          /\ IF handle[t].st = "dead"
             THEN /\ handle' = handle
                  /\ \E fault \in BOOLEAN : crashed' = fault
             ELSE /\ handle' = [handle EXCEPT ![t] = SetAny(@, t)]
                  /\ crashed' = crashed
    /\ ws' = [ws EXCEPT ![w] = [@ EXCEPT !.pc = "post", !.task = 0]]
    /\ UNCHANGED <<anyVars, cfgLog, style, cfgVars, isPoolRunning_, initThreadSize_,
                   curThreadSize_, idleThreadSize_, taskSize_, threads_,
                   generateId_, taskQue_, ownerVars, spc, pticked, got,
                   exitNotified, accOrder, deqOrder>>

RWorkerPost(w) ==
    /\ IsR(w) /\ ws[w].pc = "post"
    /\ WorkerPost(w, "top")

\* After the outer loop: threads_.erase(threadId); exitCond_.notify_all().
RWorkerExit(w) ==
    /\ IsR(w) /\ ws[w].pc = "exit"
    /\ ExitStopping(w)

\* ----------------------------------------------------------------- Next
\* The worker threads of a run, in the order they are started.
Workers == 1..(MaxInit + MaxTasks + 1)

WorkerStep ==
    \/ \E w \in Workers :
          \/ FWorkerLock(w) \/ FWorkerWake(w) \/ FWorkerTimeout(w)
          \/ FWorkerRun(w) \/ FWorkerPost(w)
    \/ \E w \in Workers :
          \/ RWorkerTop(w) \/ RWorkerLock(w) \/ RWorkerWake(w) \/ RWorkerTimeout(w)
          \/ RWorkerRun(w) \/ RWorkerPost(w) \/ RWorkerExit(w)

\* Any use of the interface: setters, submitTask and get at any time, start
\* with any count, the destructor at any time.
Next ==
    \/ \E m \in Modes : setMode(m)
    \/ \E q \in 1..MaxQue : setTaskQueMaxThreshold(q)
    \/ \E n \in 0..MaxThr : setThreadSizeThreshold(n)
    \/ \E n \in 0..MaxInit : StartFlag(n)
    \/ StartInit \/ StartCur \/ StartCreate \/ StartSpawn \/ StartIdle
    \/ \E t \in 1..MaxCalls : SubmitEnter(t) \/ SubmitWake(t) \/ SubmitTimeout(t) \/ Get(t)
    \/ \E t \in 1..MaxCalls : Drop(t)
    \/ WorkerStep
    \/ DtorFlag \/ DtorLock \/ DtorWake
    \/ Tick

Spec == Init /\ [][Next]_vars


\* ------------------------------------------------------------------ Any
\* The submitter builds an Any from a value of type T.
AnyConstruct(T, v) ==
    /\ anyObj' = AnyOf(T, v)
    /\ UNCHANGED <<poolVars, cfgLog, castRes>>

\* The submitter moves the Any out (Any(Any&&) = default moves base_): the
\* object is left holding nothing.
AnyMove ==
    /\ anyObj # NoVal
    /\ anyObj' = NoVal
    /\ UNCHANGED <<poolVars, cfgLog, castRes>>

\* The submitter calls anyObj.cast_<T>().
AnyCast(T) ==
    /\ castRes' = [from |-> anyObj, T |-> T,
                   thrown |-> cast_(anyObj, T).thrown, v |-> cast_(anyObj, T).v]
    /\ UNCHANGED <<poolVars, cfgLog, anyObj>>

AnyNext ==
    \/ \E T \in Types, v \in Vals : AnyConstruct(T, v)
    \/ AnyMove
    \/ \E T \in Types : AnyCast(T)

\* Any objects on their own: built, moved from and cast in any order.
AnySpec == Init /\ [][AnyNext]_vars

\* -------------------------------------------------------- configuration
\* The pool before start, configured by any sequence of at most MaxCfgCalls
\* setter calls, each of them recorded.
CfgInit == Constructed /\ cfgLog = EmptyLog

CfgNext ==
    /\ Len(cfgLog.calls) < MaxCfgCalls
    /\ \/ \E m \in Modes : setMode(m)
       \/ \E q \in 1..MaxQue : setTaskQueMaxThreshold(q)
       \/ \E n \in 0..MaxThr : setThreadSizeThreshold(n)

CfgSpec == CfgInit /\ [][CfgNext]_vars

\* ------------------------------------------------------------- liveness
\* The steps the scheduler owes a thread that can take them: a worker that
\* was notified, timed out, is ready for the lock or runs a task; a producer
\* inside submitTask; the owner inside start or the destructor.  A spurious
\* wake-up is owed to nobody.
FWorkerNotified(w) ==
    /\ IsF(w) /\ ws[w].pc \in {"wait", "twait"} /\ ws[w].notified
    /\ FLoop(w)

FWorkerOwed(w) ==
    \/ FWorkerLock(w) \/ FWorkerNotified(w) \/ FWorkerTimeout(w)
    \/ FWorkerRun(w) \/ FWorkerPost(w)

DtorNotified ==
    /\ exitNotified
    /\ DtorWake

OwnerOwed ==
    \/ StartInit \/ StartCur \/ StartCreate \/ StartSpawn \/ StartIdle
    \/ DtorLock \/ DtorNotified

ProducerOwed(t) == SubmitWake(t) \/ SubmitTimeout(t)

Fairness ==
    /\ \A w \in Workers : WF_vars(FWorkerOwed(w))
    /\ \A t \in Tasks : WF_vars(ProducerOwed(t))
    /\ WF_vars(OwnerOwed)
    /\ WF_vars(Tick)

\* The future-style pool used as the tests use it: the mode is set, the pool
\* is started, then tasks are submitted; the destructor may run at any time.
LiveInit == Init /\ style = "future"

LiveNext ==
    \/ \E m \in Modes : opc = "config" /\ setMode(m)
    \/ \E q \in 1..MaxQue : opc = "config" /\ setTaskQueMaxThreshold(q)
    \/ \E n \in 0..MaxThr : opc = "config" /\ setThreadSizeThreshold(n)
    \/ \E n \in 0..MaxInit : StartFlag(n)
    \/ StartInit \/ StartCur \/ StartCreate \/ StartSpawn \/ StartIdle
    \/ \E t \in Tasks : opc = "running" /\ SubmitEnter(t)
    \/ \E t \in Tasks : SubmitWake(t) \/ SubmitTimeout(t)
    \/ \E w \in Workers :
          \/ FWorkerLock(w) \/ FWorkerWake(w) \/ FWorkerTimeout(w)
          \/ FWorkerRun(w) \/ FWorkerPost(w)
    \/ DtorFlag \/ DtorLock \/ DtorWake
    \/ Tick

LiveSpec == LiveInit /\ [][LiveNext]_vars /\ Fairness

\* The result-object pool under the same scheduling: a worker that can take
\* a step, or that was notified, eventually runs; start and the destructor
\* proceed; time passes. A spurious wakeup is possible but never owed.
RWorkerNotified(w) ==
    /\ IsR(w) /\ ws[w].pc \in {"wait", "twait"} /\ ws[w].notified
    /\ RLoop(w)

RWorkerOwed(w) ==
    \/ RWorkerTop(w) \/ RWorkerLock(w) \/ RWorkerNotified(w) \/ RWorkerTimeout(w)
    \/ RWorkerRun(w) \/ RWorkerPost(w) \/ RWorkerExit(w)

ResFairness ==
    /\ \A w \in Workers : WF_vars(RWorkerOwed(w))
    /\ WF_vars(OwnerOwed)
    /\ WF_vars(Tick)

\* The result-object pool used as its test uses it: the mode is set, the
\* pool is started, tasks are submitted and their Results read or dropped;
\* the destructor may run at any time. The queue threshold keeps its
\* default, so no submitTask call ever waits.
ResInit == Init /\ style = "result"

ResNext ==
    \/ \E m \in Modes : opc = "config" /\ setMode(m)
    \/ \E n \in 0..MaxInit : StartFlag(n)
    \/ StartInit \/ StartCur \/ StartCreate \/ StartSpawn \/ StartIdle
    \/ \E t \in 1..MaxCalls : opc = "running" /\ SubmitEnter(t)
    \/ \E t \in 1..MaxCalls : Get(t) \/ Drop(t)
    \/ \E w \in Workers :
          \/ RWorkerTop(w) \/ RWorkerLock(w) \/ RWorkerWake(w) \/ RWorkerTimeout(w)
          \/ RWorkerRun(w) \/ RWorkerPost(w) \/ RWorkerExit(w)
    \/ DtorFlag \/ DtorLock \/ DtorWake
    \/ Tick

ResLiveSpec == ResInit /\ [][ResNext]_vars /\ ResFairness


\* =============================================================== claims

\* C1 (future-style pool, started with at least one worker, FIXED or CACHED):
\* every task submitTask accepts is eventually dequeued and run by a worker
\* and its future becomes ready with the task's return value, unless the
\* destructor is entered first.
C1_AcceptedEventuallyReady ==
    \A t \in Tasks :
        (spc[t] = "accepted" /\ initThreadSize_ >= 1 /\ opc = "running")
            ~> \/ /\ handle[t].st = "ready"
                  /\ handle[t].val = IntVal(Ret(t))
                  /\ runs[t] = 1
               \/ opc # "running"

\* C2 (both pools): a submitTask call whose bounded wait expired with the
\* queue still full returns (it never stays blocked once the wait has
\* expired); its handle is already resolved to the default / invalid value
\* (a ready future holding RType(); a Result with isValid false whose get()
\* returns "" without waiting), and the rejected task is never enqueued or run.
C2_RejectedResolved ==
    \A t \in Tasks :
        /\ (spc[t] = "wait" /\ pticked[t] /\ ~crashed) => ENABLED SubmitTimeout(t)
        /\ spc[t] = "rejected" =>
              /\ IF style = "future"
                 THEN /\ handle[t].st \in {"ready", "taken"}
                      /\ handle[t].val = IntVal(DefaultRType)
                 ELSE /\ ~handle[t].valid
                      /\ GetValue(handle[t]) = CStrVal
              /\ CanGet(handle[t]) \/ got[t] # NoVal
              /\ got[t] # NoVal =>
                    got[t] = IF style = "future" THEN IntVal(DefaultRType) ELSE CStrVal
              /\ \A i \in 1..Len(taskQue_) : taskQue_[i] # t
              /\ \A i \in 1..Len(accOrder) : accOrder[i] # t
              /\ \A i \in 1..Len(deqOrder) : deqOrder[i] # t
              /\ \A w \in DOMAIN ws : ws[w].task # t
              /\ runs[t] = 0

\* A rejected call whose handle was read, next to an accepted one.
C2_Witness ==
    \E t \in Tasks :
        /\ spc[t] = "rejected" /\ got[t] # NoVal
        /\ \E u \in Tasks : spc[u] = "accepted"

\* C3 (future-style pool): when ~ThreadPool has returned, the registry
\* threads_ is empty, taskQue_ is empty (every accepted task was dequeued)
\* and no worker is executing a task.
C3_ReturnsDrained ==
    (style = "future" /\ opc = "destroyed") =>
        /\ threads_ = {}
        /\ taskQue_ = << >>
        /\ \A w \in DOMAIN ws : ws[w].pc # "exec"

\* C4 (future-style pool, FIXED or CACHED): once ~ThreadPool is entered it
\* eventually returns, with the registry empty.
C4_ShutdownReturns ==
    (opc = "dtor_lock") ~> (opc = "destroyed" /\ threads_ = {})

\* C5 (CACHED mode): in every state after start has returned,
\* 0 <= idleThreadSize_ <= curThreadSize_ <= threadSizeThresHold_.
C5_CachedCounters ==
    (style = "future" /\ poolMode_ = "MODE_CACHED" /\ opc = "running" /\ ~crashed) =>
        /\ 0 <= idleThreadSize_
        /\ idleThreadSize_ <= curThreadSize_
        /\ curThreadSize_ <= threadSizeThresHold_

\* C6 (FIXED mode): from the end of start until the destructor is entered,
\* curThreadSize_ = initThreadSize_ and the registry holds exactly the
\* initThreadSize_ records start created, all of them started.
C6_FixedCountConstant ==
    (style = "future" /\ poolMode_ = "MODE_FIXED" /\ opc = "running" /\ ~crashed) =>
        /\ curThreadSize_ = initThreadSize_
        /\ Cardinality(threads_) = initThreadSize_
        /\ \A e \in threads_ : e[2]
        /\ Cardinality({w \in DOMAIN ws : ws[w].pc \notin {"done", "reaped"}})
              = initThreadSize_

\* C7 (CACHED mode): one submitTask call raises curThreadSize_ by at most
\* one, and only when, right after the enqueue, taskSize_ > idleThreadSize_
\* and curThreadSize_ < threadSizeThresHold_; when that condition holds the
\* record of the new worker is in the registry and a thread with its id has
\* been started before the call returns; curThreadSize_ stays within
\* threadSizeThresHold_ on a growth step.
C7_GrowthStep ==
    [][ (poolMode_ = "MODE_CACHED" /\ accOrder' # accOrder) =>
          LET grow == GrowCond(poolMode_, taskSize_', idleThreadSize_,
                               curThreadSize_, threadSizeThresHold_)
          IN  /\ curThreadSize_' \in {curThreadSize_, curThreadSize_ + 1}
              /\ curThreadSize_' # curThreadSize_ => grow
              /\ grow =>
                    /\ curThreadSize_' = curThreadSize_ + 1
                    /\ curThreadSize_' <= threadSizeThresHold_
                    /\ <<generateId_, TRUE>> \in threads_'
                    /\ \E w \in DOMAIN ws' :
                          /\ w \notin DOMAIN ws
                          /\ ws'[w].id = generateId_
    ]_vars

\* C8 (CACHED mode, future-style pool): a worker ends itself for idleness
\* only out of a timed-out wait on notEmpty_, with at least
\* THREAD_MAX_IDLE_TIME seconds since lastTime (its last task, or its start
\* when it has run none) and curThreadSize_ > initThreadSize_; the step
\* erases its own record, and no other, and lowers curThreadSize_ and
\* idleThreadSize_ by one each; curThreadSize_ is never below
\* initThreadSize_ on a started pool.
C8_IdleExit ==
    /\ [](style = "future" /\ opc = "running" => curThreadSize_ >= initThreadSize_)
    /\ [][ \A w \in DOMAIN ws :
             (style = "future" /\ ws[w].pc # "reaped" /\ ws'[w].pc = "reaped") =>
                /\ poolMode_ = "MODE_CACHED"
                /\ ws[w].pc = "twait" /\ ws[w].ticked
                /\ ws[w].dur >= THREAD_MAX_IDLE_TIME
                /\ curThreadSize_ > initThreadSize_
                /\ threads_' = Erase(threads_, ws[w].id)
                /\ ws[w].id \notin Keys(threads_')
                /\ curThreadSize_' = curThreadSize_ - 1
                /\ idleThreadSize_' = idleThreadSize_ - 1
                /\ curThreadSize_' >= initThreadSize_
       ]_vars

\* A grown worker has ended itself for idleness on a running pool.
C8_Witness ==
    /\ style = "future" /\ opc = "running" /\ initThreadSize_ = 1
    /\ \E w \in DOMAIN ws : ws[w].pc = "reaped" /\ ws[w].id \notin Keys(threads_)
    /\ curThreadSize_ = initThreadSize_

\* C9: outside an enqueue in progress (here every enqueue is one step), the
\* number of queued tasks is at most taskQueMaxThreshold_.
C9_QueueBounded ==
    (style = "future" /\ ~crashed) => Len(taskQue_) <= taskQueMaxThreshold_

\* C10 (both pools): tasks are dequeued in the order in which they were
\* accepted: the sequence of dequeued tasks is a prefix of the sequence of
\* accepted tasks, whichever workers took them.
C10_Fifo ==
    /\ Len(deqOrder) <= Len(accOrder)
    /\ \A i \in 1..Len(deqOrder) : deqOrder[i] = accOrder[i]

\* Two accepted tasks were taken by two different workers that hold them at
\* the same time.
C10_Witness ==
    /\ Len(deqOrder) = 2
    /\ \E w1, w2 \in DOMAIN ws :
          /\ w1 # w2
          /\ ws[w1].task = deqOrder[1]
          /\ ws[w2].task = deqOrder[2]


\* C11 (both pools): every accepted task is dequeued by at most one worker
\* and executed at most once: no task appears twice in the dequeue history,
\* no two workers hold the same task, a task is only executed after it was
\* dequeued, and only accepted tasks are dequeued.
C11_SingleDequeue ==
    /\ \A i, j \in 1..Len(deqOrder) : deqOrder[i] = deqOrder[j] => i = j
    /\ \A i \in 1..Len(deqOrder) : \E j \in 1..Len(accOrder) : accOrder[j] = deqOrder[i]
    /\ \A w1, w2 \in DOMAIN ws :
          (ws[w1].task # 0 /\ ws[w1].task = ws[w2].task) => w1 = w2
    /\ \A t \in Tasks :
          /\ runs[t] <= 1
          /\ runs[t] = 1 => \E i \in 1..Len(deqOrder) : deqOrder[i] = t
          /\ (\E w \in DOMAIN ws : ws[w].task = t) =>
                (runs[t] = 0 /\ \E i \in 1..Len(deqOrder) : deqOrder[i] = t)

\* Two workers were contending for the queue and both accepted tasks were
\* executed, one time each.
C11_Witness ==
    /\ Len(deqOrder) = 2
    /\ runs[deqOrder[1]] = 1 /\ runs[deqOrder[2]] = 1
    /\ Cardinality({w \in DOMAIN ws : ws[w].pc \notin {"done", "reaped"}}) >= 2

\* C12: within a pool's lifetime isPoolRunning_ is set only by start, is
\* cleared only when the destructor is entered, is false from then on and is
\* never set back to true.
C12_FlagOnce ==
    /\ [](opc \in {"dtor_lock", "dtor_wait", "destroyed"} => ~isPoolRunning_)
    /\ [][ /\ (isPoolRunning_ /\ ~isPoolRunning_') =>
                (opc \in {"config", "running"} /\ opc' = "dtor_lock")
           /\ (~isPoolRunning_ /\ isPoolRunning_') =>
                (opc = "config" /\ opc' = "st_init")
       ]_vars

\* A started pool whose destructor has been entered.
C12_Witness ==
    /\ opc = "dtor_wait" /\ initThreadSize_ >= 1 /\ ~isPoolRunning_
    /\ ws # << >>

\* C13: after start, a call of setMode, setTaskQueMaxThreshold or
\* setThreadSizeThreshold changes none of the mode, the queue capacity and
\* the worker threshold.
C13_SettersAfterStart ==
    [][ isPoolRunning_ => cfgVars' = cfgVars ]_vars

\* A running pool with a configuration every setter call would change if it
\* were not refused.
C13_Witness ==
    /\ opc = "running" /\ isPoolRunning_
    /\ poolMode_ = "MODE_CACHED"
    /\ taskQueMaxThreshold_ = TASK_MAX_THRESHOLD
    /\ threadSizeThresHold_ = THREAD_MAX_THRESHOLD
    /\ ENABLED setMode("MODE_FIXED")
    /\ ENABLED setTaskQueMaxThreshold(1)
    /\ ENABLED setThreadSizeThreshold(0)


\* C17 (future-style pool): outside a start call in progress, every record
\* in the registry was started exactly once and by a thread that carries
\* the record's id: no registry entry is null (no lookup of a key without a
\* record happened), no record is without a thread, no two threads were
\* started with the same id.
C17_StartedOnce ==
    (style = "future" /\ opc \notin {"st_init", "st_cur", "st_create", "st_spawn", "st_idle"}) =>
        /\ ~crashed
        /\ \A e \in threads_ :
              /\ e[2]
              /\ Cardinality({w \in DOMAIN ws : ws[w].id = e[1]}) = 1
        /\ \A w1, w2 \in DOMAIN ws : ws[w1].id = ws[w2].id => w1 = w2


\* C18 (both pools): the step in which a submitTask call is rejected for a
\* full queue leaves the queue, taskSize_, curThreadSize_, idleThreadSize_,
\* the registry and the set of worker threads as they were; so does the
\* step in which the call begins to wait for room.
C18_RejectFrame ==
    [][ \A t \in Tasks :
          (spc'[t] # spc[t] /\ spc'[t] \in {"wait", "rejected"}) =>
             /\ taskQue_' = taskQue_
             /\ taskSize_' = taskSize_
             /\ curThreadSize_' = curThreadSize_
             /\ idleThreadSize_' = idleThreadSize_
             /\ threads_' = threads_
             /\ generateId_' = generateId_
             /\ ws' = ws
    ]_vars

\* A call was rejected in MODE_CACHED in a state in which an accepted call
\* would have added a worker.
C18_Witness ==
    /\ poolMode_ = "MODE_CACHED"
    /\ \E t \in Tasks : spc[t] = "rejected"
    /\ GrowCond(poolMode_, taskSize_ + 1, idleThreadSize_, curThreadSize_,
                threadSizeThresHold_)


\* C19: once the destructor has cleared isPoolRunning_, no worker takes a
\* task from the queue any more.
C19_NoDequeueAfterShutdown ==
    [][ (opc \in {"dtor_lock", "dtor_wait"} /\ ~isPoolRunning_) =>
            deqOrder' = deqOrder ]_vars


\* C16: Any::cast_<T>() returns the stored value only when T is the type
\* that was stored; for every other T, and for an Any that holds nothing
\* (default-constructed or moved from), it throws.
C16_CastChecked ==
    castRes # NoCast =>
        /\ castRes.thrown <=> (castRes.from = NoVal \/ castRes.from.ty # castRes.T)
        /\ ~castRes.thrown => castRes.v = castRes.from.v

\* A cast with the stored type has returned a non-zero value and the object
\* has been moved from since.
C16_Witness ==
    /\ castRes # NoCast /\ ~castRes.thrown
    /\ castRes.from.ty = "ulong" /\ castRes.v = MaxVal
    /\ anyObj = NoVal


\* C20: in the result-object pool a worker never posts a value into a Result
\* that the submitter has already destroyed: whenever a worker executes a
\* task, the Result the task points to still exists.
C20_NoPostIntoDeadResult ==
    [][ \A w \in DOMAIN ws :
            (style = "result" /\ ws[w].pc = "exec" /\ ws'[w].pc = "post")
                => handle[ws[w].task].st # "dead" ]_vars


\* C14: in the result-object pool, get() on a valid Result does not return
\* before the worker has called setAny for its task; the value it returns is
\* exactly the value run() produced (cast_<ULong> of it yields that value);
\* the value is written once (the task runs once and a stored value is never
\* overwritten) and consumed once (after get has taken it nothing changes
\* the Result or the value that was returned).
C14_ResultHandOver ==
    /\ [](style = "result" =>
            \A t \in Tasks :
                handle[t].valid =>
                    /\ handle[t].st \in {"ready", "taken"} =>
                          /\ runs[t] = 1
                          /\ handle[t].val = AnyOf("ulong", Ret(t))
                    /\ handle[t].st = "taken" <=> got[t] # NoVal
                    /\ got[t] # NoVal =>
                          cast_(got[t], "ulong") = Returned(Ret(t)))
    /\ [][ style = "result" =>
            \A t \in Tasks :
                /\ (handle[t].valid /\ handle[t].st \in {"ready", "taken"})
                      => handle'[t].val = handle[t].val
                /\ (handle[t].valid /\ handle[t].st = "taken")
                      => handle'[t] = handle[t]
                /\ got[t] # NoVal => got'[t] = got[t] ]_vars

\* Two valid Results were read after their tasks had run, each with the
\* value of its own task.
C14_Witness ==
    /\ style = "result" /\ ~crashed
    /\ handle[1].valid /\ handle[2].valid
    /\ got[1] = AnyOf("ulong", Ret(1)) /\ got[2] = AnyOf("ulong", Ret(2))
    /\ Ret(1) # Ret(2)


\* C15: in the result-object pool, after start(n) with n >= 1, a submitTask
\* and a get() that returned the task's result, the destructor, once
\* entered, eventually returns, whatever the interleaving of the workers.
C15_DtorReturns ==
    (/\ style = "result" /\ opc = "dtor_lock" /\ initThreadSize_ >= 1
     /\ \E t \in Tasks : handle[t].valid /\ got[t] = AnyOf("ulong", Ret(t)))
        ~> (opc = "destroyed")


\* C21: in the result-object pool a worker goes on to the dequeue
\* (idleThreadSize_--, front(), pop()) only when the task queue is not empty;
\* with the pool running and the queue empty, a worker that holds the lock
\* blocks on notEmpty_.
C21_DequeueOnlyNonEmpty ==
    [][ style = "result" =>
          /\ (idleThreadSize_' = idleThreadSize_ - 1 /\ curThreadSize_' = curThreadSize_)
                => Len(taskQue_) > 0
          /\ \A w \in DOMAIN ws :
                (/\ ws[w].pc = "lock" /\ isPoolRunning_ /\ Len(taskQue_) = 0
                 /\ (ws'[w] # ws[w] \/ idleThreadSize_' = idleThreadSize_ - 1))
                    => ws'[w].pc \in {"wait", "twait"} ]_vars


\* C22: in the future-style pool a worker that ends itself for idleness
\* (after a timed-out wait_for in MODE_CACHED) does so only in a state where
\* the task queue is empty, however its timed wait interleaves with
\* submitTask calls.
C22_IdleExitQueueEmpty ==
    [][ \A w \in DOMAIN ws :
            (style = "future" /\ ws[w].pc = "twait" /\ ws'[w].pc = "reaped")
                => Len(taskQue_) = 0 ]_vars


\* C23: while the pool is unstarted (start has not been called) no worker is
\* registered or started: the registry is empty and no worker thread exists,
\* whatever was submitted, in MODE_FIXED and in MODE_CACHED.
C23_NoWorkerBeforeStart ==
    opc = "config" =>
        /\ threads_ = {}
        /\ ws = << >>
        /\ curThreadSize_ = 0


\* C24: before start, setThreadSizeThreshold(n) changes the worker threshold
\* only if the mode is MODE_CACHED at the time of the call. After any
\* sequence of setter calls the threshold is the argument of the last
\* setThreadSizeThreshold call that was made while the mode set by the calls
\* before it was MODE_CACHED, and the default if there is none: so
\* setThreadSizeThreshold(n); setMode(MODE_CACHED) leaves the default in
\* force and setMode(MODE_CACHED); setThreadSizeThreshold(n) sets n.
C24_ThresholdNeedsCachedFirst ==
    (cfgLog.on /\ opc = "config") =>
        LET L == cfgLog.calls
            ModeCalls(i) == {j \in 1..(i - 1) : L[j].op = "setMode"}
            ModeAt(i) ==
                IF ModeCalls(i) = {} THEN "MODE_FIXED"
                ELSE L[CHOOSE j \in ModeCalls(i) : \A k \in ModeCalls(i) : k <= j].mode
            Effective == {i \in 1..Len(L) :
                            L[i].op = "setThreadSizeThreshold" /\ ModeAt(i) = "MODE_CACHED"}
        IN  threadSizeThresHold_ =
                IF Effective = {} THEN THREAD_MAX_THRESHOLD
                ELSE L[CHOOSE i \in Effective : \A k \in Effective : k <= i].n

\* setThreadSizeThreshold(0) then setMode(MODE_CACHED): the mode is cached
\* and the default threshold is in force.
C24_Witness ==
    /\ cfgLog.on /\ Len(cfgLog.calls) = 2
    /\ cfgLog.calls[1].op = "setThreadSizeThreshold" /\ cfgLog.calls[1].n = 0
    /\ cfgLog.calls[2].op = "setMode" /\ cfgLog.calls[2].mode = "MODE_CACHED"
    /\ poolMode_ = "MODE_CACHED"
    /\ threadSizeThresHold_ = THREAD_MAX_THRESHOLD

=============================================================================
